---- MODULE Spec2Model ----
(***************************************************************************)
(* KrishiRaksha claim evaluation: the decision cascade of ClaimEvaluator   *)
(* (ml/inference/claim_evaluator.py) and the perceptual-hash duplicate     *)
(* engine of ImageVerifier (ml/inference/image_verification.py).           *)
(*                                                                         *)
(* Numbers.  Percentages, scores and yields are Python floats.  They are   *)
(* modelled as integers counting hundredths (30.0 is 3000).  The sampled   *)
(* inputs are multiples of 0.25, which binary floats hold exactly, so the  *)
(* comparisons and the roundings below are the ones Python computes.       *)
(***************************************************************************)
EXTENDS Integers, Naturals, Sequences, FiniteSets, TLC

VARIABLES
    image_hashes,     \* ImageVerifier.image_hashes: the set of stored hex hashes
    hashes_before,    \* image_hashes as the latest verify call found it
    prev,             \* outcome of the verify call before the latest one
    last,             \* outcome of the latest verify call
    args,             \* the arguments of the _make_decision call under study
    phase,            \* "args" -> "decided" -> "recommended" ("off" elsewhere)
    decision,         \* [approved, reason] returned by _make_decision
    recommendations,  \* list returned by _generate_recommendations
    threads,          \* each concurrent caller of verify: where it is, what it holds
    evaluation,       \* the latest ClaimEvaluator.evaluate call and how it ended
    adapters,         \* the API module's globals: None, or the constructed adapters
    response,         \* the latest API request and the HTTP status it got
    inputs,           \* the arguments handed to the feature builders
    features          \* what the feature builders returned for them

verifier_vars == <<image_hashes, hashes_before, prev, last>>
decision_vars == <<args, phase, decision, recommendations>>
concurrent_vars == <<threads>>
evaluate_vars == <<evaluation>>
api_vars == <<adapters, response>>
feature_vars == <<inputs, features>>
service_vars == <<threads, evaluation, adapters, response, inputs, features>>
vars == <<image_hashes, hashes_before, prev, last, args, phase, decision, recommendations, threads, evaluation, adapters, response, inputs, features>>

\* The value of a part of the state that a specification does not exercise.
Idle == <<>>

IdleService ==
    /\ threads = Idle
    /\ evaluation = Idle
    /\ adapters = Idle
    /\ response = Idle
    /\ inputs = Idle
    /\ features = Idle

----------------------------------------------------------------------------
(* Arithmetic helpers *)

Abs(x) == IF x < 0 THEN -x ELSE x

\* n/d rounded to the nearest integer, ties to even (n >= 0, d > 0): the
\* rounding of Python's round() and of the format specifier on exact values.
RoundHalfEven(n, d) ==
    LET q == n \div d
        r == n % d
    IN  IF 2 * r < d THEN q
        ELSE IF 2 * r > d THEN q + 1
        ELSE IF q % 2 = 0 THEN q ELSE q + 1

\* A whole number of the source (30, 0.5 * 100, ...) in hundredths.
Units(x) == x * 100

\* f"{x:.1f}": the value in tenths.
Fmt1(x) == RoundHalfEven(x, 10)

----------------------------------------------------------------------------
(* ClaimEvaluator._make_decision: thresholds *)

RejectFraudScore == 70
MinDamageConfidence == 30
ModerateFraudScore == 50
LowDamageConfidence == 50
StrongFraudScore == 60
ConditionalDamageConfidence == 40
ClearImageConfidence == 70
YieldDiffLimit == 5

\* A reason string: which message it is, the numbers formatted into it and
\* the findings joined into it.
Reason(kind, nums, findings) == [kind |-> kind, nums |-> nums, findings |-> findings]

\* One element of the `reasons` list.
Finding(kind, nums) == [kind |-> kind, nums |-> nums]

Verdict(approved, reason) == [approved |-> approved, reason |-> reason]

\* abs(predicted - expected) / expected if expected > 0 else 0, compared
\* with 0.5.  The quotient of two small exact values is above 0.5 exactly
\* when twice the difference is above the divisor.
YieldDiscrepancyHigh(predicted_yield, expected_yield) ==
    /\ expected_yield > 0
    /\ 2 * Abs(predicted_yield - expected_yield) > expected_yield

YieldFinding(predicted_yield, expected_yield) ==
    Finding("yield_discrepancy", <<Fmt1(predicted_yield), Fmt1(expected_yield)>>)

FraudFinding(fraud_score) == Finding("moderate_fraud", <<Fmt1(fraud_score)>>)

DamageFinding(damage_confidence) == Finding("low_damage", <<Fmt1(damage_confidence)>>)

\* Rules 4-6 with `elif`: only the first finding that holds is recorded.
SoftFindingsFirstOnly(damage_confidence, predicted_yield, expected_yield, fraud_detected, fraud_score) ==
    IF YieldDiscrepancyHigh(predicted_yield, expected_yield)
    THEN <<YieldFinding(predicted_yield, expected_yield)>>
    ELSE IF fraud_detected /\ fraud_score > Units(ModerateFraudScore)
    THEN <<FraudFinding(fraud_score)>>
    ELSE IF damage_confidence < Units(LowDamageConfidence)
    THEN <<DamageFinding(damage_confidence)>>
    ELSE <<>>

\* Rules 4-6: the `reasons` list after the three appends.
SoftFindings(damage_confidence, predicted_yield, expected_yield, fraud_detected, fraud_score) ==
    (IF YieldDiscrepancyHigh(predicted_yield, expected_yield)
     THEN <<YieldFinding(predicted_yield, expected_yield)>> ELSE <<>>)
    \o (IF fraud_detected /\ fraud_score > Units(ModerateFraudScore)
        THEN <<FraudFinding(fraud_score)>> ELSE <<>>)
    \o (IF damage_confidence < Units(LowDamageConfidence)
        THEN <<DamageFinding(damage_confidence)>> ELSE <<>>)

\* Decision logic with `len(reasons) > 2` in place of `>= 2`.
DecisionLogicMoreThanTwo(reasons, damage_confidence, fraud_detected, fraud_score) ==
    IF Len(reasons) > 2
    THEN Verdict(FALSE, Reason("findings", <<>>, reasons))
    ELSE IF fraud_detected /\ fraud_score > Units(StrongFraudScore)
    THEN Verdict(FALSE, Reason("fraud", <<Fmt1(fraud_score)>>, reasons))
    ELSE IF damage_confidence < Units(ConditionalDamageConfidence)
    THEN Verdict(FALSE, Reason("low_damage", <<Fmt1(damage_confidence)>>, <<>>))
    ELSE IF reasons # <<>>
    THEN Verdict(TRUE, Reason("conditions", <<>>, reasons))
    ELSE Verdict(TRUE, Reason("all_passed", <<>>, <<>>))

\* Decision logic without the single-strong-fraud rejection.
DecisionLogicNoStrongFraud(reasons, damage_confidence, fraud_detected, fraud_score) ==
    IF Len(reasons) >= 2
    THEN Verdict(FALSE, Reason("findings", <<>>, reasons))
    ELSE IF damage_confidence < Units(ConditionalDamageConfidence)
    THEN Verdict(FALSE, Reason("low_damage", <<Fmt1(damage_confidence)>>, <<>>))
    ELSE IF reasons # <<>>
    THEN Verdict(TRUE, Reason("conditions", <<>>, reasons))
    ELSE Verdict(TRUE, Reason("all_passed", <<>>, <<>>))

\* Decision logic rejecting on a single finding.
DecisionLogicAnyFinding(reasons, damage_confidence, fraud_detected, fraud_score) ==
    IF Len(reasons) >= 1
    THEN Verdict(FALSE, Reason("findings", <<>>, reasons))
    ELSE IF fraud_detected /\ fraud_score > Units(StrongFraudScore)
    THEN Verdict(FALSE, Reason("fraud", <<Fmt1(fraud_score)>>, reasons))
    ELSE IF damage_confidence < Units(ConditionalDamageConfidence)
    THEN Verdict(FALSE, Reason("low_damage", <<Fmt1(damage_confidence)>>, <<>>))
    ELSE Verdict(TRUE, Reason("all_passed", <<>>, <<>>))

\* The decision logic after the findings are gathered.
DecisionLogic(reasons, damage_confidence, fraud_detected, fraud_score) ==
    IF Len(reasons) >= 2
    THEN Verdict(FALSE, Reason("findings", <<>>, reasons))
    ELSE IF fraud_detected /\ fraud_score > Units(StrongFraudScore)
    THEN Verdict(FALSE, Reason("fraud", <<Fmt1(fraud_score)>>, reasons))
    ELSE IF damage_confidence < Units(ConditionalDamageConfidence)
    THEN Verdict(FALSE, Reason("low_damage", <<Fmt1(damage_confidence)>>, <<>>))
    ELSE IF reasons # <<>>
    THEN Verdict(TRUE, Reason("conditions", <<>>, reasons))
    ELSE Verdict(TRUE, Reason("all_passed", <<>>, <<>>))

\* Rules 4 onwards with the score > 60 rejection left out.
FromRule4NoStrongFraud(damage_confidence, predicted_yield, expected_yield, fraud_detected, fraud_score) ==
    DecisionLogicNoStrongFraud(SoftFindings(damage_confidence, predicted_yield, expected_yield,
                                            fraud_detected, fraud_score),
                               damage_confidence, fraud_detected, fraud_score)

\* Rules 4 onwards: gather the findings, then decide.
FromRule4(damage_confidence, predicted_yield, expected_yield, fraud_detected, fraud_score) ==
    DecisionLogic(SoftFindings(damage_confidence, predicted_yield, expected_yield,
                               fraud_detected, fraud_score),
                  damage_confidence, fraud_detected, fraud_score)

\* Rule 3 tested only after the combined-findings rejection.
FromRule3AfterFindings(damage_confidence, predicted_yield, expected_yield, fraud_detected, fraud_score) ==
    LET reasons == SoftFindings(damage_confidence, predicted_yield, expected_yield,
                                fraud_detected, fraud_score)
    IN  IF Len(reasons) >= 2
        THEN Verdict(FALSE, Reason("findings", <<>>, reasons))
        ELSE IF damage_confidence < Units(MinDamageConfidence)
        THEN Verdict(FALSE, Reason("insufficient_damage", <<Fmt1(damage_confidence)>>, <<>>))
        ELSE DecisionLogic(reasons, damage_confidence, fraud_detected, fraud_score)

\* Rule 3 onwards.
FromRule3(damage_confidence, predicted_yield, expected_yield, fraud_detected, fraud_score) ==
    IF damage_confidence < Units(MinDamageConfidence)
    THEN Verdict(FALSE, Reason("insufficient_damage", <<Fmt1(damage_confidence)>>, <<>>))
    ELSE FromRule4(damage_confidence, predicted_yield, expected_yield,
                   fraud_detected, fraud_score)

\* Rules 2 and 3 exchanged.
FromRule2DamageFirst(damage_confidence, predicted_yield, expected_yield, fraud_detected, fraud_score) ==
    IF damage_confidence < Units(MinDamageConfidence)
    THEN Verdict(FALSE, Reason("insufficient_damage", <<Fmt1(damage_confidence)>>, <<>>))
    ELSE IF fraud_detected /\ fraud_score > Units(RejectFraudScore)
    THEN Verdict(FALSE, Reason("high_fraud", <<Fmt1(fraud_score)>>, <<>>))
    ELSE FromRule4(damage_confidence, predicted_yield, expected_yield,
                   fraud_detected, fraud_score)

\* Rule 2 onwards.
FromRule2(damage_confidence, predicted_yield, expected_yield, fraud_detected, fraud_score) ==
    IF fraud_detected /\ fraud_score > Units(RejectFraudScore)
    THEN Verdict(FALSE, Reason("high_fraud", <<Fmt1(fraud_score)>>, <<>>))
    ELSE FromRule3(damage_confidence, predicted_yield, expected_yield,
                   fraud_detected, fraud_score)

\* Rules 1 and 2 exchanged.
make_decision_fraud_first(damage_confidence, is_duplicate, predicted_yield, expected_yield, fraud_detected, fraud_score, claim_amount) ==
    IF fraud_detected /\ fraud_score > Units(RejectFraudScore)
    THEN Verdict(FALSE, Reason("high_fraud", <<Fmt1(fraud_score)>>, <<>>))
    ELSE IF is_duplicate
    THEN Verdict(FALSE, Reason("duplicate", <<>>, <<>>))
    ELSE FromRule3(damage_confidence, predicted_yield, expected_yield,
                   fraud_detected, fraud_score)

\* The cascade with a ceiling on the amount claimed.
make_decision_amount_capped(damage_confidence, is_duplicate, predicted_yield, expected_yield, fraud_detected, fraud_score, claim_amount) ==
    IF is_duplicate \/ claim_amount > Units(10000)
    THEN Verdict(FALSE, Reason("duplicate", <<>>, <<>>))
    ELSE FromRule2(damage_confidence, predicted_yield, expected_yield,
                   fraud_detected, fraud_score)

\* ClaimEvaluator._make_decision
_make_decision(damage_confidence, is_duplicate, predicted_yield, expected_yield, fraud_detected, fraud_score, claim_amount) ==
    IF is_duplicate
    THEN Verdict(FALSE, Reason("duplicate", <<>>, <<>>))
    ELSE FromRule2(damage_confidence, predicted_yield, expected_yield,
                   fraud_detected, fraud_score)

----------------------------------------------------------------------------
(* ClaimEvaluator._generate_recommendations *)

RecOriginals == "Please submit original images of the crop damage"
RecReview == "Review claim details and ensure all information is accurate"
RecClearer == "Submit clearer, higher resolution images showing crop damage"
RecFuture == "For future claims, provide clearer images to expedite processing"
RecYield == "Consider reviewing yield expectations based on current conditions"
RecSuccess == "Claim processed successfully"

\* The list before the final `if not recommendations`.
Applicable(approved, damage_confidence, is_duplicate, fraud_detected, predicted_yield, expected_yield) ==
    IF ~approved
    THEN (IF is_duplicate THEN <<RecOriginals>> ELSE <<>>)
         \o (IF fraud_detected THEN <<RecReview>> ELSE <<>>)
         \o (IF damage_confidence < Units(LowDamageConfidence) THEN <<RecClearer>> ELSE <<>>)
    ELSE (IF damage_confidence < Units(ClearImageConfidence) THEN <<RecFuture>> ELSE <<>>)
         \o (IF Abs(predicted_yield - expected_yield) > Units(YieldDiffLimit)
             THEN <<RecYield>> ELSE <<>>)

\* `damage_confidence <= 70` in place of `< 70` on the approved branch.
generate_recommendations_le(approved, damage_confidence, is_duplicate, fraud_detected, predicted_yield, expected_yield) ==
    LET recs == IF ~approved
                THEN Applicable(approved, damage_confidence, is_duplicate, fraud_detected,
                                predicted_yield, expected_yield)
                ELSE (IF damage_confidence <= Units(ClearImageConfidence)
                      THEN <<RecFuture>> ELSE <<>>)
                     \o (IF Abs(predicted_yield - expected_yield) > Units(YieldDiffLimit)
                         THEN <<RecYield>> ELSE <<>>)
    IN  IF recs = <<>> THEN <<RecSuccess>> ELSE recs

_generate_recommendations(approved, damage_confidence, is_duplicate, fraud_detected, predicted_yield, expected_yield) ==
    LET recs == Applicable(approved, damage_confidence, is_duplicate, fraud_detected,
                           predicted_yield, expected_yield)
    IN  IF recs = <<>> THEN <<RecSuccess>> ELSE recs

----------------------------------------------------------------------------
(* ImageVerifier: perceptual hash and duplicate check *)

\* The image is resized to GridSide x GridSide grayscale pixels.
GridSide == 8
\* bin(...)[2:].zfill(ZfillWidth)
ZfillWidth == 64
\* The default `threshold` of _check_duplicate, 0.95, in hundredths.
DefaultThreshold == 95

NumPixels == GridSide * GridSide

RECURSIVE SumSeq(_)
SumSeq(s) == IF s = <<>> THEN 0 ELSE Head(s) + SumSeq(Tail(s))

\* The digits of a number written without leading zeros ("0" for zero).
RECURSIVE StripLeadingZeros(_)
StripLeadingZeros(s) ==
    IF Len(s) > 1 /\ Head(s) = 0 THEN StripLeadingZeros(Tail(s)) ELSE s

\* The sequence s[1], ..., s[n] of a function on 1..n, as a tuple.
Listed(s) == s \o <<>>

\* str.zfill(w)
Zfill(s, w) == IF Len(s) >= w THEN s ELSE [i \in 1..(w - Len(s)) |-> 0] \o s

\* An image as the hash sees it: the resized grayscale grid, flattened row
\* by row.  An image is given by the set of its bright pixels (0-based).
Pixels(img) == Listed([i \in 1..NumPixels |-> IF (i - 1) \in img THEN 200 ELSE 50])

\* hash_bits = (pixels > avg).flatten(), avg = pixels.mean()
HashBits(pixels) ==
    LET total == SumSeq(pixels)
    IN  Listed([i \in 1..Len(pixels) |-> IF Len(pixels) * pixels[i] > total THEN 1 ELSE 0])

\* hex(int(hash_string, 2))[2:]: the hex digits (as values 0..15) of the
\* number the bit string spells, most significant first, no leading zeros.
HexOfBits(bits) ==
    StripLeadingZeros(Listed([k \in 1..(Len(bits) \div 4) |->
        8 * bits[4 * k - 3] + 4 * bits[4 * k - 2] + 2 * bits[4 * k - 1] + bits[4 * k]]))

\* bin(int(h, 16))[2:]: the bits of the number the hex digits spell.
BinOfHex(h) ==
    StripLeadingZeros(Listed([j \in 1..(4 * Len(h)) |->
        LET nib == h[((j - 1) \div 4) + 1]
            pos == (j - 1) % 4
        IN  (nib \div (2 ^ (3 - pos))) % 2]))

\* ImageVerifier._compute_image_hash, the aHash branch.  The MD5 fallback needs
\* an image that cannot be opened, and verify has by then raised from
\* _preprocess_image, which opens the same file first.
_compute_image_hash(img) == HexOfBits(HashBits(Pixels(img)))

Min(a, b) == IF a < b THEN a ELSE b

\* sum(c1 != c2 for c1, c2 in zip(bin1, bin2)): zip stops at the shorter.
HammingDistance(bin1, bin2) ==
    Cardinality({i \in 1..Min(Len(bin1), Len(bin2)) : bin1[i] # bin2[i]})

\* A similarity in [0, 1] is held as a count of 1/6400 (1.0 is 6400), exact
\* for every distance over a 64-bit string.
SimilarityOf(hamming_distance, length) == ((length - hamming_distance) * 6400) \div length

\* _hash_similarity without the zfill: the bit strings are compared from
\* their first significant bit.
hash_similarity_no_zfill(hash1, hash2) ==
    LET bin1 == BinOfHex(hash1)
        bin2 == BinOfHex(hash2)
    IN  SimilarityOf(HammingDistance(bin1, bin2), Len(bin1))

\* ImageVerifier._hash_similarity
_hash_similarity(hash1, hash2) ==
    LET bin1 == Zfill(BinOfHex(hash1), ZfillWidth)
        bin2 == Zfill(BinOfHex(hash2), ZfillWidth)
    IN  SimilarityOf(HammingDistance(bin1, bin2), Len(bin1))

\* The sampled images: image k has the bright pixels BitPos(i) for the bits i
\* set in k, so images 0..15 are all the patterns over four pixels spread
\* over the grid (the first and the last one among them).
NumImages == 16
BitPos(i) == (i * 21) % NumPixels
BrightSet(k) == {BitPos(i) : i \in {j \in 0..15 : (k \div (2 ^ j)) % 2 = 1}}
Images == {BrightSet(k) : k \in 0..(NumImages - 1)}

\* The hash of every sampled image and the similarity of every two such
\* hashes, computed once.
Tabulated(f) == f @@ f
HashOf == Tabulated([img \in Images |-> _compute_image_hash(img)])
SampleHashes == {HashOf[img] : img \in Images}
Similarity ==
    Tabulated([pair \in SampleHashes \X SampleHashes |-> _hash_similarity(pair[1], pair[2])])

RECURSIVE MaxOf(_)
MaxOf(S) ==
    IF S = {} THEN 0
    ELSE LET x == CHOOSE y \in S : TRUE
             m == MaxOf(S \ {x})
         IN  IF x > m THEN x ELSE m

\* _check_duplicate returning a fraction (1.0) for the exact match.
check_duplicate_unscaled(hashes, image_hash) ==
    IF hashes = {} THEN <<FALSE, 0>>
    ELSE IF image_hash \in hashes THEN <<TRUE, 64>>
    ELSE LET max_similarity == MaxOf({Similarity[<<image_hash, stored_hash>>] :
                                         stored_hash \in hashes})
         IN  <<max_similarity * 100 >= DefaultThreshold * 6400, max_similarity>>

\* ImageVerifier._check_duplicate: (is_duplicate, confidence); the confidence
\* is a percentage held as a count of 1/64 (100.0 is 6400).
_check_duplicate(hashes, image_hash) ==
    IF hashes = {} THEN <<FALSE, 0>>
    ELSE IF image_hash \in hashes THEN <<TRUE, 6400>>
    ELSE LET max_similarity == MaxOf({Similarity[<<image_hash, stored_hash>>] :
                                         stored_hash \in hashes})
         IN  <<max_similarity * 100 >= DefaultThreshold * 6400, max_similarity>>

\* The store made only when the set already holds something.
StoreHashUnlessEmpty(hashes, image_hash, is_duplicate) ==
    IF ~is_duplicate /\ hashes # {} THEN hashes \cup {image_hash} ELSE hashes

\* The store made whatever the check found.
StoreHashAlways(hashes, image_hash, is_duplicate) == hashes \cup {image_hash}

\* verify: `if not is_duplicate: self.image_hashes.add(image_hash)`
StoreHash(hashes, image_hash, is_duplicate) ==
    IF ~is_duplicate THEN hashes \cup {image_hash} ELSE hashes

\* round(duplicate_confidence, 2), in hundredths of a percent.
RoundConfidence(confidence) == RoundHalfEven(confidence * 100, 64)

\* round(float(damage_prediction * 100.0), 2), in hundredths of a percent; the
\* classifier's output is held as a count of 1/100000.
RoundDamage(damage_prediction) == RoundHalfEven(damage_prediction, 10)

\* What a verify call left behind: the result dictionary, or the exception.
VerifyResult(damage_confidence, is_duplicate, duplicate_confidence, image_hash) ==
    [status |-> "ok", damage_confidence |-> damage_confidence,
     is_duplicate |-> is_duplicate, duplicate_confidence |-> duplicate_confidence,
     image_hash |-> image_hash]

Raised(exception) ==
    [status |-> exception, damage_confidence |-> 0, is_duplicate |-> FALSE,
     duplicate_confidence |-> 0, image_hash |-> <<>>]

NoCall == Raised("none")

\* The part of an outcome kept once a later call has been made.
Earlier(r) == [r EXCEPT !.damage_confidence = 0]

\* Classifier outputs sampled (29.996% and 81.234%).
DamagePredictions == {29996, 81234}

\* ImageVerifier.verify on an image that exists and can be decoded.
Verify ==
    \E img \in Images, damage_prediction \in DamagePredictions :
        LET image_hash == HashOf[img]
            dup == _check_duplicate(image_hashes, image_hash)
        IN  /\ image_hashes' = StoreHash(image_hashes, image_hash, dup[1])
            /\ hashes_before' = image_hashes
            /\ prev' = Earlier(last)
            /\ last' = VerifyResult(RoundDamage(damage_prediction), dup[1],
                                    RoundConfidence(dup[2]), image_hash)
            /\ UNCHANGED <<decision_vars, service_vars>>

\* verify on a path that does not exist: FileNotFoundError is re-raised.
VerifyMissing ==
    /\ hashes_before' = image_hashes
    /\ prev' = Earlier(last)
    /\ last' = Raised("FileNotFoundError")
    /\ UNCHANGED <<image_hashes, decision_vars, service_vars>>

\* verify on a file _preprocess_image cannot decode: ValueError is re-raised.
VerifyUnreadable ==
    /\ hashes_before' = image_hashes
    /\ prev' = Earlier(last)
    /\ last' = Raised("ValueError")
    /\ UNCHANGED <<image_hashes, decision_vars, service_vars>>

\* The set starts empty.  A set loaded from duplicate_detector.pkl was saved
\* by save_duplicate_detector from an earlier run, so it is one of the sets
\* reached from the empty one.
InitVerifier ==
    /\ image_hashes = {}
    /\ hashes_before = {}
    /\ prev = NoCall
    /\ last = NoCall

----------------------------------------------------------------------------
(* The decision cascade applied to sampled arguments *)

\* How many quarter steps around each threshold are sampled.
Spread == 1
\* Expected yields sampled: 0, 10, ..., 10 * MaxExpected quintals.
MaxExpected == 2

Around(t) == {Units(t) + 25 * d : d \in -Spread..Spread}

DamageVals ==
    {0, Units(80), Units(100)} \cup Around(MinDamageConfidence) \cup Around(ConditionalDamageConfidence)
        \cup Around(LowDamageConfidence) \cup Around(ClearImageConfidence)

ScoreVals ==
    {0, Units(100)} \cup Around(ModerateFraudScore) \cup Around(StrongFraudScore)
        \cup Around(RejectFraudScore)

ExpectedVals == {Units(10) * k : k \in 0..MaxExpected}

\* Predicted yields around the expected one: equal, half a step either side of
\* the 50% discrepancy and of the 5-quintal difference.
PredictedVals(e) ==
    {p \in {e + s * (b + 25 * d) : s \in {-1, 1}, b \in {0, e \div 2, Units(YieldDiffLimit)},
                                   d \in -Spread..Spread} : p >= 0}

ClaimAmounts == {Units(1000), Units(25000)}

NoDecision == Verdict(FALSE, Reason("none", <<>>, <<>>))

InitDecision ==
    /\ InitVerifier
    /\ \E dc \in DamageVals, dup \in BOOLEAN, e \in ExpectedVals,
          fd \in BOOLEAN, fs \in ScoreVals, ca \in ClaimAmounts :
          \E p \in PredictedVals(e) :
              args = [damage_confidence |-> dc, is_duplicate |-> dup,
                      predicted_yield |-> p, expected_yield |-> e,
                      fraud_detected |-> fd, fraud_score |-> fs, claim_amount |-> ca]
    /\ phase = "args"
    /\ decision = NoDecision
    /\ recommendations = <<>>
    /\ IdleService

\* evaluate, step 4
Decide ==
    /\ phase = "args"
    /\ decision' = _make_decision(args.damage_confidence, args.is_duplicate,
                                 args.predicted_yield, args.expected_yield,
                                 args.fraud_detected, args.fraud_score, args.claim_amount)
    /\ phase' = "decided"
    /\ UNCHANGED <<args, recommendations, verifier_vars, service_vars>>

\* evaluate, step 5
Recommend ==
    /\ phase = "decided"
    /\ recommendations' = _generate_recommendations(decision.approved, args.damage_confidence,
                                                   args.is_duplicate, args.fraud_detected,
                                                   args.predicted_yield, args.expected_yield)
    /\ phase' = "recommended"
    /\ UNCHANGED <<args, decision, verifier_vars, service_vars>>

NextDecision == Decide \/ Recommend

SpecDecision == InitDecision /\ [][NextDecision]_vars

----------------------------------------------------------------------------
(* The verifier serving one call after another *)

Init ==
    /\ InitVerifier
    /\ args = [damage_confidence |-> 0, is_duplicate |-> FALSE,
               predicted_yield |-> 0, expected_yield |-> 0,
               fraud_detected |-> FALSE, fraud_score |-> 0, claim_amount |-> 0]
    /\ phase = "off"
    /\ decision = NoDecision
    /\ recommendations = <<>>
    /\ IdleService

Next == Verify \/ VerifyMissing \/ VerifyUnreadable

Spec == Init /\ [][Next]_vars

----------------------------------------------------------------------------
(* Two callers inside ImageVerifier.verify on one verifier at the same time. *)
(* verify takes no lock, so a caller can be preempted between any two of its *)
(* reads and writes of image_hashes; each such access is one step here.      *)

Callers == {"first", "second"}

\* What a step of a caller leaves alone besides the set and the callers.
concurrent_frame == <<hashes_before, prev, last, decision_vars, evaluate_vars, api_vars, feature_vars>>

NotCalling == [pc |-> "idle", image_hash |-> <<>>, is_duplicate |-> FALSE, seen |-> {}]

\* A caller's record after one more step of its call.
Moved(t, pc, image_hash, is_duplicate, seen) ==
    [threads EXCEPT ![t] = [pc |-> pc, image_hash |-> image_hash,
                            is_duplicate |-> is_duplicate, seen |-> seen]]

\* verify up to the hash: the file is found, decoded, classified and hashed.
CallVerify(t) ==
    /\ threads[t].pc = "idle"
    /\ \E img \in Images : threads' = Moved(t, "hashed", HashOf[img], FALSE, {})
    /\ UNCHANGED <<image_hashes, concurrent_frame>>

\* _check_duplicate before its loop: the emptiness test and the exact match.
CheckStored(t) ==
    /\ threads[t].pc = "hashed"
    /\ threads' = IF image_hashes = {}
                    THEN Moved(t, "checked", threads[t].image_hash, FALSE, {})
                  ELSE IF threads[t].image_hash \in image_hashes
                    THEN Moved(t, "checked", threads[t].image_hash, TRUE, {})
                  ELSE Moved(t, "compare", threads[t].image_hash, FALSE, {})
    /\ UNCHANGED <<image_hashes, concurrent_frame>>

\* `for stored_hash in self.image_hashes`: the iterator is made over the set
\* as it is now.
BeginLoop(t) ==
    /\ threads[t].pc = "compare"
    /\ threads' = Moved(t, "looping", threads[t].image_hash, FALSE, image_hashes)
    /\ UNCHANGED <<image_hashes, concurrent_frame>>

\* The loop runs to its end; a set that changed size under the iterator makes
\* it raise RuntimeError, which verify re-raises.
EndLoop(t) ==
    /\ threads[t].pc = "looping"
    /\ threads' = IF image_hashes # threads[t].seen
                    THEN Moved(t, "raised", threads[t].image_hash, FALSE, threads[t].seen)
                  ELSE Moved(t, "checked", threads[t].image_hash,
                             _check_duplicate(threads[t].seen, threads[t].image_hash)[1],
                             threads[t].seen)
    /\ UNCHANGED <<image_hashes, concurrent_frame>>

\* `if not is_duplicate: self.image_hashes.add(image_hash)` and the return.
StoreAndReturn(t) ==
    /\ threads[t].pc = "checked"
    /\ image_hashes' = StoreHash(image_hashes, threads[t].image_hash, threads[t].is_duplicate)
    /\ threads' = Moved(t, "returned", threads[t].image_hash, threads[t].is_duplicate,
                        threads[t].seen)
    /\ UNCHANGED concurrent_frame

\* The set the callers find is empty or holds one hash stored by an earlier
\* call; hashes_before keeps it.
InitConcurrent ==
    /\ image_hashes \in {{}} \cup {{HashOf[img]} : img \in Images}
    /\ hashes_before = image_hashes
    /\ prev = NoCall
    /\ last = NoCall
    /\ args = Idle
    /\ phase = "off"
    /\ decision = NoDecision
    /\ recommendations = <<>>
    /\ threads = [t \in Callers |-> NotCalling]
    /\ evaluation = Idle
    /\ adapters = Idle
    /\ response = Idle
    /\ inputs = Idle
    /\ features = Idle

NextConcurrent ==
    \/ \E t \in Callers : CallVerify(t)
    \/ \E t \in Callers : CheckStored(t)
    \/ \E t \in Callers : BeginLoop(t)
    \/ \E t \in Callers : EndLoop(t)
    \/ \E t \in Callers : StoreAndReturn(t)

SpecConcurrent == InitConcurrent /\ [][NextConcurrent]_vars

----------------------------------------------------------------------------
(* Normalisation of the inputs (api/utils.py) and the fraud feature vector *)
(* (FraudDetector._prepare_features).  A land-size string is held as the   *)
(* list of tokens str.split() makes of it; areas count millionths of a     *)
(* hectare, which holds value * factor exactly for the values sampled.     *)

\* float(token) in hundredths, for the tokens float() accepts; on any other
\* token float() raises ValueError.
FloatOf == Tabulated([token \in {"5", "2.5", "0", "-3"} |->
               CASE token = "5" -> 500 [] token = "2.5" -> 250 [] token = "0" -> 0 [] token = "-3" -> -300])

\* str.lower() on the unit tokens sampled.
Lower(unit) == CASE unit = "Acre" -> "acre" [] unit = "HECTARE" -> "hectare" [] OTHER -> unit

\* What a call did: the exception it raised, or the value it returned.
Returned(value) == [raised |-> "none", value |-> value]
Threw(exception, value) == [raised |-> exception, value |-> value]

\* utils.parse_land_size: (value, unit), or ValueError.
parse_land_size(land_size) ==
    IF Len(land_size) < 2 \/ land_size[1] \notin DOMAIN FloatOf
    THEN Threw("ValueError", <<0, "">>)
    ELSE Returned(<<FloatOf[land_size[1]], Lower(land_size[2])>>)

\* utils.convert_to_hectares: the factors in millionths of a hectare.
conversion_factors ==
    Tabulated([unit \in {"acre", "hectare", "hectares", "bigha", "katha", "kanal", "marla", "guntha", "cent", "cents"} |->
        CASE unit = "acre" -> 404686 [] unit = "hectare" -> 1000000 [] unit = "hectares" -> 1000000
          [] unit = "bigha" -> 133800 [] unit = "katha" -> 6700 [] unit = "kanal" -> 50600
          [] unit = "marla" -> 2500 [] unit = "guntha" -> 10100 [] unit = "cent" -> 4000
          [] unit = "cents" -> 4000])

convert_to_hectares(value, unit) ==
    LET unit_lower == Lower(unit)
    IN  IF unit_lower \notin DOMAIN conversion_factors
        THEN (value * 1000000) \div 100
        ELSE (value * conversion_factors[unit_lower]) \div 100

\* `return 1.0  # Default to 1 hectare`
DefaultHectares == 1000000

\* FraudDetector._parse_land_size and YieldPredictor._parse_land_size: any
\* exception of the parse is logged and 1.0 is returned.
_parse_land_size(land_size) ==
    LET parsed == parse_land_size(land_size)
    IN  IF parsed.raised # "none" THEN Returned(DefaultHectares)
        ELSE Returned(convert_to_hectares(parsed.value[1], parsed.value[2]))

\* utils.extract_weather_features: the defaults, in hundredths.  A weather
\* dictionary is a function from the keys it holds to their values.
default_features ==
    [temperature |-> Units(25), rainfall |-> 0, humidity |-> Units(60), wind_speed |-> Units(5), sunshine_hours |-> Units(8)]

NoWeather == <<>>

extract_weather_features(weather_data) ==
    IF weather_data = NoWeather THEN default_features
    ELSE [key \in DOMAIN default_features |->
             IF key \in DOMAIN weather_data THEN weather_data[key] ELSE default_features[key]]

\* _calculate_weather_anomaly_score
normal_ranges == [temperature |-> <<Units(20), Units(35)>>, rainfall |-> <<Units(50), Units(150)>>, humidity |-> <<Units(40), Units(80)>>]

penalties == [temperature |-> Units(30), rainfall |-> Units(40), humidity |-> Units(30)]

\* The test of one dimension with the bounds themselves penalised.
OutsideOrAtBound(weather_features, key) ==
    weather_features[key] <= normal_ranges[key][1] \/ weather_features[key] >= normal_ranges[key][2]

\* `if x < normal_ranges[key][0] or x > normal_ranges[key][1]`
Outside(weather_features, key) ==
    weather_features[key] < normal_ranges[key][1] \/ weather_features[key] > normal_ranges[key][2]

_calculate_weather_anomaly_score(weather_features) ==
    LET add(key) == IF Outside(weather_features, key) THEN penalties[key] ELSE 0
    IN  Min(Units(100), add("temperature") + add("rainfall") + add("humidity"))

\* q + r/d carried `digits` decimal places further and rounded, ties to even
\* (long division, so that no intermediate value leaves the integer range).
RECURSIVE Expand(_, _, _, _)
Expand(q, r, d, digits) ==
    IF digits = 0
    THEN IF 2 * r < d THEN q
         ELSE IF 2 * r > d THEN q + 1
         ELSE IF q % 2 = 0 THEN q ELSE q + 1
    ELSE Expand(q * 10 + (r * 10) \div d, (r * 10) % d, d, digits - 1)

\* n / d for floats held as integers: the quotient with `digits` more decimal
\* places than n has over d; a zero divisor raises ZeroDivisionError.
Divide(n, d, digits) ==
    IF d = 0 THEN Threw("ZeroDivisionError", 0)
    ELSE LET magnitude == Expand(Abs(n) \div Abs(d), Abs(n) % Abs(d), Abs(d), digits)
         IN  IF (n >= 0) = (d > 0) THEN Returned(magnitude) ELSE Returned(-magnitude)

\* The guard letting a zero divisor through.
PerPositiveOrZero(n, d, digits) == IF d >= 0 THEN Divide(n, d, digits) ELSE Returned(0)

\* `n / d if d > 0 else 0`
PerPositive(n, d, digits) == IF d > 0 THEN Divide(n, d, digits) ELSE Returned(0)

\* _encode_crop_type on the crops sampled (lower-cased and stripped first).
_encode_crop_type(crop_type) ==
    CASE crop_type \in {"rice", "Rice "} -> 0
      [] crop_type = "wheat" -> 1
      [] crop_type = "cotton" -> 2
      [] crop_type = "sugarcane" -> 3
      [] crop_type = "maize" -> 4
      [] OTHER -> 0

\* FraudDetector._prepare_features: the vector, or the exception that ended it.
\* The three ratios are in hundredths, like the yield and the amount.
_prepare_features(crop_type, land_size, expected_yield, claim_amount, weather_features, historical_claims) ==
    LET land_size_hectares == _parse_land_size(land_size)
        area == land_size_hectares.value
        weather == extract_weather_features(weather_features)
        yield_per_hectare == PerPositive(expected_yield, area, 6)
        claim_per_hectare == PerPositive(claim_amount, area, 6)
        claim_to_yield_ratio == PerPositive(claim_amount, expected_yield, 2)
        raised == {r.raised : r \in {land_size_hectares, yield_per_hectare, claim_per_hectare, claim_to_yield_ratio}} \ {"none"}
    IN  [raised |-> IF raised = {} THEN "none" ELSE CHOOSE e \in raised : TRUE,
         crop_type_encoded |-> _encode_crop_type(crop_type),
         land_size_hectares |-> area,
         expected_yield |-> expected_yield,
         claim_amount |-> claim_amount,
         yield_per_hectare |-> yield_per_hectare.value,
         claim_per_hectare |-> claim_per_hectare.value,
         claim_to_yield_ratio |-> claim_to_yield_ratio.value,
         historical_claims |-> historical_claims,
         temperature |-> weather.temperature,
         rainfall |-> weather.rainfall,
         humidity |-> weather.humidity,
         weather_anomaly_score |-> _calculate_weather_anomaly_score(weather)]

----------------------------------------------------------------------------
(* The training-time builder (training/fraud_model/anomaly_features.py) *)

\* AnomalyFeatureEngineer.parse_land_size: its own table of factors, in
\* millionths of a hectare.
training_conversion_factors ==
    Tabulated([unit \in {"acre", "hectare", "hectares", "bigha", "katha", "kanal", "marla", "guntha", "cent"} |->
        CASE unit = "acre" -> 404686 [] unit = "hectare" -> 1000000 [] unit = "hectares" -> 1000000
          [] unit = "bigha" -> 133800 [] unit = "katha" -> 6700 [] unit = "kanal" -> 50600
          [] unit = "marla" -> 2500 [] unit = "guntha" -> 10100 [] unit = "cent" -> 4000])

\* `value * conversion_factors.get(unit, 1.0)`, and 1.0 on any exception
\* (no first token that is a number, no second token).
training_parse_land_size(land_size) ==
    IF Len(land_size) < 1 \/ land_size[1] \notin DOMAIN FloatOf \/ Len(land_size) < 2
    THEN DefaultHectares
    ELSE LET unit == Lower(land_size[2])
         IN  IF unit \in DOMAIN training_conversion_factors
             THEN (FloatOf[land_size[1]] * training_conversion_factors[unit]) \div 100
             ELSE (FloatOf[land_size[1]] * 1000000) \div 100

\* AnomalyFeatureEngineer.create_features: the array of twelve features.
\* encode_crop_type, extract_weather_features and
\* calculate_weather_anomaly_score are written there as in the adapter.
create_features(crop_type, land_size, expected_yield, claim_amount, weather_features, historical_claims) ==
    LET land_size_hectares == training_parse_land_size(land_size)
        weather == extract_weather_features(weather_features)
        weather_anomaly == _calculate_weather_anomaly_score(weather)
        yield_per_hectare == PerPositive(expected_yield, land_size_hectares, 6).value
        claim_per_hectare == PerPositive(claim_amount, land_size_hectares, 6).value
        claim_to_yield_ratio == PerPositive(claim_amount, expected_yield, 2).value
    IN  <<_encode_crop_type(crop_type), land_size_hectares, expected_yield, claim_amount,
          yield_per_hectare, claim_per_hectare, claim_to_yield_ratio,
          historical_claims, weather.temperature, weather.rainfall,
          weather.humidity, weather_anomaly>>

----------------------------------------------------------------------------
(* Sowing dates and the season flags (YieldPredictor._determine_season) *)

\* datetime.strptime(text, '%Y-%m-%d') on the texts sampled: <<year, month,
\* day>> for the texts that are dates in that format, ValueError for the rest.
DateFields ==
    Tabulated(
        ("2024-01-15" :> <<2024, 1, 15>>) @@ ("2024-02-29" :> <<2024, 2, 29>>) @@
        ("2024-03-15" :> <<2024, 3, 15>>) @@ ("2024-04-30" :> <<2024, 4, 30>>) @@
        ("2024-05-01" :> <<2024, 5, 1>>) @@ ("2024-05-31" :> <<2024, 5, 31>>) @@
        ("2024-06-01" :> <<2024, 6, 1>>) @@ ("2024-07-15" :> <<2024, 7, 15>>) @@
        ("2024-08-15" :> <<2024, 8, 15>>) @@ ("2024-09-15" :> <<2024, 9, 15>>) @@
        ("2024-10-31" :> <<2024, 10, 31>>) @@ ("2024-11-01" :> <<2024, 11, 1>>) @@
        ("2023-12-31" :> <<2023, 12, 31>>) @@ ("2024-6-5" :> <<2024, 6, 5>>))

Unparseable == {"", "None", "soon", "15/07/2024", "2024-13-01", "2024-00-10", "2023-02-29", "2024-07-15T10:00"}

SowingDates == DOMAIN DateFields \cup Unparseable

strptime(text) ==
    IF text \in DOMAIN DateFields THEN Returned(DateFields[text]) ELSE Threw("ValueError", <<0, 0, 0>>)

\* The flags with October counted in both seasons.
determine_season_overlapping(sowing_date) ==
    LET sowing == strptime(sowing_date)
        month == sowing.value[2]
    IN  IF sowing.raised # "none" THEN <<0, 0>>
        ELSE <<IF 6 <= month /\ month <= 10 THEN 1 ELSE 0, IF month >= 10 \/ month <= 4 THEN 1 ELSE 0>>

\* _determine_season: (is_kharif, is_rabi); any exception gives (0, 0).
_determine_season(sowing_date) ==
    LET sowing == strptime(sowing_date)
        month == sowing.value[2]
    IN  IF sowing.raised # "none" THEN <<0, 0>>
        ELSE <<IF 6 <= month /\ month <= 10 THEN 1 ELSE 0, IF month >= 11 \/ month <= 4 THEN 1 ELSE 0>>

----------------------------------------------------------------------------
(* The adapters' entry points.  What the trained model does with a feature *)
(* vector (a value, or an exception) is the environment's choice.          *)

\* YieldPredictor.predict: the rounded prediction, or the exception of
\* _prepare_features or of the model.
predict(land_size, sowing_date, model_outcome) ==
    LET land_size_hectares == _parse_land_size(land_size)
    IN  IF land_size_hectares.raised # "none" THEN Threw(land_size_hectares.raised, 0)
        ELSE model_outcome

\* np.array([[...]]): the twelve features in the order they are written.
FeatureArray(prepared) ==
    <<prepared.crop_type_encoded, prepared.land_size_hectares, prepared.expected_yield,
      prepared.claim_amount, prepared.yield_per_hectare, prepared.claim_per_hectare,
      prepared.claim_to_yield_ratio, prepared.historical_claims, prepared.temperature,
      prepared.rainfall, prepared.humidity, prepared.weather_anomaly_score>>

\* The element the source writes vector[i] (indices from 0).
At(array, i) == array[i + 1]

\* The attribution stopping at the first rule that triggers.
identify_first_anomaly_feature(vector, fraud_detected) ==
    IF ~fraud_detected THEN <<>>
    ELSE IF At(vector, 6) > Units(1000) THEN <<"Unusually high claim amount relative to expected yield">>
    ELSE IF At(vector, 4) < Units(10) THEN <<"Suspiciously low yield per hectare">>
    ELSE IF At(vector, 4) > Units(100) THEN <<"Unusually high yield per hectare">>
    ELSE IF At(vector, 5) > Units(50000) THEN <<"Extremely high claim amount per hectare">>
    ELSE IF At(vector, 7) > 5 THEN <<"High number of historical claims">>
    ELSE IF At(vector, 11) > Units(50) THEN <<"Unusual weather conditions reported">>
    ELSE <<"Multiple factors indicate potential fraud">>

\* FraudDetector._identify_anomaly_features: the list of descriptions.
_identify_anomaly_features(vector, fraud_detected) ==
    IF ~fraud_detected THEN <<>>
    ELSE LET anomaly_features ==
                 (IF At(vector, 6) > Units(1000)
                  THEN <<"Unusually high claim amount relative to expected yield">> ELSE <<>>)
                 \o (IF At(vector, 4) < Units(10) THEN <<"Suspiciously low yield per hectare">>
                     ELSE IF At(vector, 4) > Units(100) THEN <<"Unusually high yield per hectare">>
                     ELSE <<>>)
                 \o (IF At(vector, 5) > Units(50000)
                     THEN <<"Extremely high claim amount per hectare">> ELSE <<>>)
                 \o (IF At(vector, 7) > 5 THEN <<"High number of historical claims">> ELSE <<>>)
                 \o (IF At(vector, 11) > Units(50)
                     THEN <<"Unusual weather conditions reported">> ELSE <<>>)
         IN  IF anomaly_features = <<>>
             THEN <<"Multiple factors indicate potential fraud">>
             ELSE anomaly_features

\* What the anomaly model gives for a vector: model.predict (-1 or 1) and
\* model.score_samples, the raw score held as a count of 1/10000.
ModelOutput(prediction, anomaly_score) == [prediction |-> prediction, anomaly_score |-> anomaly_score]

\* max(low, min(high, x))
Clamp(low, high, x) == IF x > high THEN (IF high < low THEN low ELSE high) ELSE IF x < low THEN low ELSE x

\* The rescaling without the clamp to [0, 100].
fraud_score_unclamped(anomaly_score) ==
    IF anomaly_score <= 10000 THEN RoundHalfEven(10000 - anomaly_score, 2)
    ELSE -RoundHalfEven(anomaly_score - 10000, 2)

\* round(max(0.0, min(100.0, (1.0 - (anomaly_score + 1) / 2) * 100)), 2), in
\* hundredths: (1 - (s + 1) / 2) * 100 is (10000 - s) / 2 hundredths for a raw
\* score of s / 10000.
fraud_score_of(anomaly_score) == RoundHalfEven(Clamp(0, 20000, 10000 - anomaly_score), 2)

\* The confidence with the raw score scaled by 100 instead of 50.
confidence_steep(anomaly_score) == RoundHalfEven(Clamp(5000, 10000, Abs(anomaly_score)), 1)

\* round(max(50.0, min(100.0, abs(anomaly_score) * 50)), 2), in hundredths:
\* |s| * 50 is |s| / 2 hundredths for a raw score of s / 10000.
confidence_of(anomaly_score) == RoundHalfEven(Clamp(10000, 20000, Abs(anomaly_score)), 2)

\* The result dictionary of detect.
FraudResult(fraud_detected, fraud_score, anomaly_features, confidence) ==
    [fraud_detected |-> fraud_detected, fraud_score |-> fraud_score,
     anomaly_features |-> anomaly_features, confidence |-> confidence]

NoFraudResult == FraudResult(FALSE, 0, <<>>, 0)

\* FraudDetector.detect: the result dictionary, or the exception of
\* _prepare_features or of the model (re-raised by the except clause).
detect(crop_type, land_size, expected_yield, claim_amount, weather_features, historical_claims, model_outcome) ==
    LET prepared == _prepare_features(crop_type, land_size, expected_yield, claim_amount,
                                      weather_features, historical_claims)
        vector == FeatureArray(prepared)
        fraud_detected == model_outcome.value.prediction = -1
    IN  IF prepared.raised # "none" THEN Threw(prepared.raised, NoFraudResult)
        ELSE IF model_outcome.raised # "none" THEN Threw(model_outcome.raised, NoFraudResult)
        ELSE Returned(FraudResult(fraud_detected,
                                  fraud_score_of(model_outcome.value.anomaly_score),
                                  _identify_anomaly_features(vector, fraud_detected),
                                  confidence_of(model_outcome.value.anomaly_score)))

----------------------------------------------------------------------------
(* ClaimEvaluator.evaluate: one claim submitted, and submitted again.  The  *)
(* trained models are outside the program: what the classifier, the yield   *)
(* model and the anomaly model do on a call (a number, or an exception) is  *)
(* chosen by the environment at each call.                                  *)

\* Python's None for an optional string argument.
None == "None"

\* An optional number: None, or a float.
NoNumber == [given |-> FALSE, value |-> 0]
Number(x) == [given |-> TRUE, value |-> x]

\* The exception of a model call that failed (NotFittedError, ...).
Failure == "Exception"

\* The truth value of an optional string: None and "" are false.
Truthy(text) == text # None /\ text # ""

\* The condition with the fertilizer usage tested for truth, so that 0 fails it.
SufficientDataTruthy(sowing_date, soil_type, irrigation_type, fertilizer_usage) ==
    Truthy(sowing_date) /\ Truthy(soil_type) /\ Truthy(irrigation_type) /\ fertilizer_usage.given /\ fertilizer_usage.value # 0

\* `if sowing_date and soil_type and irrigation_type and fertilizer_usage is not None`
SufficientData(sowing_date, soil_type, irrigation_type, fertilizer_usage) ==
    Truthy(sowing_date) /\ Truthy(soil_type) /\ Truthy(irrigation_type) /\ fertilizer_usage.given

\* ImageVerifier.verify as evaluate sees it: the exception it raised, or its
\* result, and the set it leaves.  Every failure comes before the hash is
\* computed.
VerifyCall(hashes, image_hash, found) ==
    IF found.raised # "none"
    THEN [raised |-> found.raised, image_hashes |-> hashes, result |-> Raised(found.raised)]
    ELSE LET dup == _check_duplicate(hashes, image_hash)
         IN  [raised |-> "none",
              image_hashes |-> StoreHash(hashes, image_hash, dup[1]),
              result |-> VerifyResult(RoundDamage(found.value), dup[1], RoundConfidence(dup[2]), image_hash)]

NoVerdict == [approved |-> FALSE, damage_confidence |-> 0, predicted_yield |-> 0, fraud_detected |-> FALSE, reason |-> Reason("none", <<>>, <<>>), fraud_score |-> NoNumber, is_duplicate |-> FALSE, recommendations |-> <<>>]

\* How an evaluate call ended: status "returned" with the result dictionary,
\* or the name of the exception that left it.  yield_invoked, failed (the
\* adapters that raised in this call) and predicted_yield (the value handed to
\* _make_decision) are the call's local facts.
Ended(status, yield_invoked, failed, predicted_yield, verdict) ==
    [status |-> status, yield_invoked |-> yield_invoked, failed |-> failed,
     predicted_yield |-> predicted_yield, verdict |-> verdict]

NoEvaluation == Ended("none", FALSE, {}, 0, NoVerdict)

\* The result dictionary carrying the score whether or not fraud was detected.
ResultOfScoreAlways(image_result, predicted_yield, expected_yield, fraud_result, claim_amount) ==
    LET made == _make_decision(image_result.damage_confidence, image_result.is_duplicate,
                               predicted_yield, expected_yield,
                               fraud_result.fraud_detected, fraud_result.fraud_score, claim_amount)
    IN  [approved |-> made.approved,
         damage_confidence |-> image_result.damage_confidence,
         predicted_yield |-> predicted_yield,
         fraud_detected |-> fraud_result.fraud_detected,
         reason |-> made.reason,
         fraud_score |-> Number(fraud_result.fraud_score),
         is_duplicate |-> image_result.is_duplicate,
         recommendations |-> _generate_recommendations(made.approved, image_result.damage_confidence,
                                                       image_result.is_duplicate, fraud_result.fraud_detected,
                                                       predicted_yield, expected_yield)]

\* Steps 4 and 5 and the result dictionary.  The yields and scores carry two
\* decimals, which round(., 2) leaves as they are.
ResultOf(image_result, predicted_yield, expected_yield, fraud_result, claim_amount) ==
    LET made == _make_decision(image_result.damage_confidence, image_result.is_duplicate,
                               predicted_yield, expected_yield,
                               fraud_result.fraud_detected, fraud_result.fraud_score, claim_amount)
    IN  [approved |-> made.approved,
         damage_confidence |-> image_result.damage_confidence,
         predicted_yield |-> predicted_yield,
         fraud_detected |-> fraud_result.fraud_detected,
         reason |-> made.reason,
         fraud_score |-> IF fraud_result.fraud_detected THEN Number(fraud_result.fraud_score) ELSE NoNumber,
         is_duplicate |-> image_result.is_duplicate,
         recommendations |-> _generate_recommendations(made.approved, image_result.damage_confidence,
                                                       image_result.is_duplicate, fraud_result.fraud_detected,
                                                       predicted_yield, expected_yield)]

\* Step 2 treating a failed yield prediction as fatal.
YieldStepStrict(request, yield_outcome) ==
    LET invoked == SufficientData(request.sowing_date, request.soil_type,
                                  request.irrigation_type, request.fertilizer_usage)
    IN  [invoked |-> invoked,
         failed |-> invoked /\ yield_outcome.raised # "none",
         fatal |-> invoked /\ yield_outcome.raised # "none",
         predicted_yield |-> IF invoked /\ yield_outcome.raised = "none"
                               THEN yield_outcome.value ELSE request.expected_yield]

\* evaluate, step 2: the predictor is called when the data suffice, and an
\* exception from it is logged and dropped (it is not fatal to the call).
YieldStep(request, yield_outcome) ==
    LET invoked == SufficientData(request.sowing_date, request.soil_type,
                                  request.irrigation_type, request.fertilizer_usage)
    IN  [invoked |-> invoked,
         failed |-> invoked /\ yield_outcome.raised # "none",
         fatal |-> FALSE,
         predicted_yield |-> IF invoked /\ yield_outcome.raised = "none"
                               THEN yield_outcome.value ELSE request.expected_yield]

\* evaluate: <<how the call ended, the hash set it leaves>>.
evaluate(hashes, request, found, yield_model, fraud_model) ==
    LET image == VerifyCall(hashes, HashOf[request.image], found)
        yield_outcome == predict(request.land_size, request.sowing_date, yield_model)
        fraud_outcome == detect(request.crop_type, request.land_size, request.expected_yield,
                                request.claim_amount, request.weather_features,
                                request.historical_claims, fraud_model)
        step2 == YieldStep(request, yield_outcome)
        yield_failed == IF step2.failed THEN {"yield"} ELSE {}
    IN  IF image.raised # "none"
        THEN <<Ended(image.raised, FALSE, {"image"}, 0, NoVerdict), image.image_hashes>>
        ELSE IF step2.fatal
        THEN <<Ended(Failure, step2.invoked, yield_failed, 0, NoVerdict), image.image_hashes>>
        ELSE IF fraud_outcome.raised # "none"
        THEN <<Ended(Failure, step2.invoked, yield_failed \cup {"fraud"}, step2.predicted_yield, NoVerdict), image.image_hashes>>
        ELSE <<Ended("returned", step2.invoked, yield_failed, step2.predicted_yield,
                     ResultOf(image.result, step2.predicted_yield, request.expected_yield,
                              fraud_outcome.value, request.claim_amount)),
               image.image_hashes>>

\* The claims submitted: two images, a land size that parses or does not, an
\* expected yield of 0 or 20 quintals, every optional field absent, empty or
\* given.
ClaimImages == {BrightSet(0), BrightSet(1)}
OptionalTexts(given) == {None, "", given}
Requests ==
    [image : ClaimImages, crop_type : {"wheat"}, land_size : {<<"5", "acre">>, <<"five", "acre">>},
     expected_yield : {0, Units(20)}, claim_amount : {Units(25000)},
     weather_features : {NoWeather}, historical_claims : {0},
     sowing_date : OptionalTexts("2024-07-15"), soil_type : OptionalTexts("black"),
     irrigation_type : OptionalTexts("drip"), fertilizer_usage : {NoNumber, Number(0), Number(Units(50))}]

\* What the models can do on a call.
ImageOutcomes ==
    {Returned(d) : d \in DamagePredictions}
        \cup {Threw(e, 0) : e \in {"FileNotFoundError", "ValueError", Failure}}
YieldOutcomes == {Threw(Failure, 0), Returned(Units(5)), Returned(Units(20))}
\* The anomaly model: an exception, a normal label (raw score 0.6, fraud
\* score 20.0), an anomaly (raw score -0.1, fraud score 55.0), and an anomaly
\* whose raw score (-1.5) is below the range the rescaling expects.
FraudOutcomes ==
    {Threw(Failure, ModelOutput(1, 0)),
     Returned(ModelOutput(1, 6000)),
     Returned(ModelOutput(-1, -1000)),
     Returned(ModelOutput(-1, -15000))}

InitEvaluate ==
    /\ InitVerifier
    /\ args = Idle
    /\ phase = "off"
    /\ decision = NoDecision
    /\ recommendations = <<>>
    /\ threads = Idle
    /\ evaluation = NoEvaluation
    /\ adapters = Idle
    /\ response = Idle
    /\ inputs \in Requests
    /\ features = Idle

\* One evaluate call on the claim.
Evaluate ==
    \E found \in ImageOutcomes, yield_model \in YieldOutcomes, fraud_model \in FraudOutcomes :
        LET call == evaluate(image_hashes, inputs, found, yield_model, fraud_model)
        IN  /\ evaluation' = call[1]
            /\ image_hashes' = call[2]
            /\ hashes_before' = image_hashes
            /\ UNCHANGED <<prev, last, decision_vars, threads, api_vars, feature_vars>>

NextEvaluate == Evaluate

SpecEvaluate == InitEvaluate /\ [][NextEvaluate]_vars

----------------------------------------------------------------------------
(* The API module (api/app.py): startup, then the four entry points.  The  *)
(* installation (which model files exist and whether they load) is fixed   *)
(* before startup and held in `inputs`.                                    *)

FileStates == {"missing", "corrupt", "valid"}

Installations ==
    [classifier : FileStates, duplicate : FileStates, yield_model : FileStates,
     yield_scaler : FileStates, fraud_model : FileStates, fraud_scaler : FileStates]

\* The hash set a valid duplicate_detector.pkl holds.
SavedHashes == {HashOf[BrightSet(2)]}

\* A module global still None, and a constructed adapter: its model (the
\* damage classifier, for the verifier) and its scaler.
NoAdapter == [constructed |-> FALSE, model |-> None, scaler |-> None]
Adapter(model, scaler) == [constructed |-> TRUE, model |-> model, scaler |-> scaler]

\* Loading with no fallback for a file that fails to load.
load_models_no_fallback(model_file, scaler_file) ==
    Adapter(CASE model_file = "valid" -> "trained" [] model_file = "missing" -> "default" [] OTHER -> None,
            CASE scaler_file = "valid" -> "fitted" [] scaler_file = "missing" -> "default" [] OTHER -> None)

\* FraudDetector.__init__/_load_models and YieldPredictor.__init__/_load_models:
\* a missing file gives the default object; an exception while loading either
\* file replaces the model and the scaler by the defaults.
_load_models(model_file, scaler_file) ==
    IF model_file = "corrupt" \/ scaler_file = "corrupt"
    THEN Adapter("default", "default")
    ELSE Adapter(IF model_file = "valid" THEN "trained" ELSE "default",
                 IF scaler_file = "valid" THEN "fitted" ELSE "default")

\* ImageVerifier.__init__/_load_models: <<the verifier, its image_hashes>>.
load_image_models(classifier_file, duplicate_file) ==
    IF classifier_file = "corrupt" \/ duplicate_file = "corrupt"
    THEN <<Adapter("default", None), {}>>
    ELSE <<Adapter(IF classifier_file = "valid" THEN "trained" ELSE "default", None),
           IF duplicate_file = "valid" THEN SavedHashes ELSE {}>>

\* is_loaded of the three adapters.
is_loaded(adapter) == adapter.model # None

NoAdapters ==
    [image_verifier |-> NoAdapter, yield_predictor |-> NoAdapter,
     fraud_detector |-> NoAdapter, claim_evaluator |-> NoAdapter]

\* initialize_models, run by the startup event.
initialize_models ==
    /\ ~adapters.claim_evaluator.constructed
    /\ LET verifier == load_image_models(inputs.classifier, inputs.duplicate)
       IN  /\ adapters' = [image_verifier |-> verifier[1],
                           yield_predictor |-> _load_models(inputs.yield_model, inputs.yield_scaler),
                           fraud_detector |-> _load_models(inputs.fraud_model, inputs.fraud_scaler),
                           claim_evaluator |-> Adapter(None, None)]
           /\ image_hashes' = verifier[2]
    /\ UNCHANGED <<hashes_before, prev, last, decision_vars, threads, evaluation, response, feature_vars>>

\* The except clauses of verify_image and evaluate_claim, applied to what the
\* try block raised.
StatusWithNotFound(raised) ==
    CASE raised = "none" -> 200
      [] raised = "FileNotFoundError" -> 404
      [] raised = "ValueError" -> 400
      [] OTHER -> 500

\* The except clauses of predict_yield and detect_fraud.
StatusPlain(raised) ==
    CASE raised = "none" -> 200
      [] raised = "ValueError" -> 400
      [] OTHER -> 500

\* `if adapter is None: raise HTTPException(status_code=503, ...)`, inside the
\* try block; otherwise what the rest of the block raises.
TryBlock(adapter, raised) == IF ~adapter.constructed THEN "HTTPException" ELSE raised

\* The request served last: the entry point, whether its adapter was None,
\* the land size sent, and the status answered.
Served(endpoint, adapter, land_size, status) ==
    [endpoint |-> endpoint, uninitialized |-> ~adapter.constructed, land_size |-> land_size, status |-> status]

NoResponse == [endpoint |-> "none", uninitialized |-> FALSE, land_size |-> <<>>, status |-> 0]

\* utils.validate_image_path: what it raises for the path sent.
validate_image_path(path) ==
    CASE path = "empty" -> "ValueError"
      [] path = "absent" -> "FileNotFoundError"
      [] path = "not_an_image" -> "ValueError"
      [] OTHER -> "none"

LandSizes == {<<"5", "acre">>, <<"2.5", "Acre">>, <<"5">>, <<"five", "acre">>, <<>>}

\* The claims and the model behaviours the entry points are exercised with.
ApiImageOutcomes == {o \in ImageOutcomes : o.value # 29996}
ApiYieldOutcomes == {o \in YieldOutcomes : o.value # Units(5)}
ApiFraudOutcomes == {o \in FraudOutcomes : o.value.prediction = 1}

ApiRequests ==
    {r \in Requests : /\ r.expected_yield = Units(20)
                      /\ r.image = BrightSet(0)
                      /\ r.fertilizer_usage # Number(0)
                      /\ \/ r.sowing_date = "2024-07-15" /\ r.soil_type = "black" /\ r.irrigation_type = "drip" /\ r.fertilizer_usage # NoNumber
                         \/ r.sowing_date = None /\ r.soil_type = None /\ r.irrigation_type = None /\ r.fertilizer_usage = NoNumber}

api_frame == <<prev, last, decision_vars, threads, adapters, inputs, features>>

\* POST /api/v1/verify-image
verify_image ==
    \E path \in {"empty", "absent", "not_an_image", "image"}, img \in ClaimImages, found \in ApiImageOutcomes :
        LET checked == validate_image_path(path)
            call == VerifyCall(image_hashes, HashOf[img], found)
            ran == adapters.image_verifier.constructed /\ checked = "none"
            raised == TryBlock(adapters.image_verifier, IF checked # "none" THEN checked ELSE call.raised)
        IN  /\ image_hashes' = IF ran THEN call.image_hashes ELSE image_hashes
            /\ hashes_before' = image_hashes
            /\ response' = Served("verify_image", adapters.image_verifier, <<>>, StatusWithNotFound(raised))
            /\ UNCHANGED <<evaluation, api_frame>>

\* POST /api/v1/predict-yield
predict_yield ==
    \E land_size \in LandSizes, sowing_date \in {"2024-07-15", "soon"}, model \in ApiYieldOutcomes :
        LET raised == TryBlock(adapters.yield_predictor, predict(land_size, sowing_date, model).raised)
        IN  /\ response' = Served("predict_yield", adapters.yield_predictor, land_size, StatusPlain(raised))
            /\ UNCHANGED <<image_hashes, hashes_before, evaluation, api_frame>>

\* POST /api/v1/detect-fraud
detect_fraud ==
    \E land_size \in LandSizes, model \in ApiFraudOutcomes :
        LET call == detect("wheat", land_size, Units(20), Units(25000), NoWeather, 0, model)
            raised == TryBlock(adapters.fraud_detector, call.raised)
        IN  /\ response' = Served("detect_fraud", adapters.fraud_detector, land_size, StatusPlain(raised))
            /\ UNCHANGED <<image_hashes, hashes_before, evaluation, api_frame>>

\* POST /api/v1/evaluate-claim
evaluate_claim ==
    \E request \in ApiRequests, found \in ApiImageOutcomes, yield_model \in ApiYieldOutcomes, fraud_model \in ApiFraudOutcomes :
        LET call == evaluate(image_hashes, request, found, yield_model, fraud_model)
            ran == adapters.claim_evaluator.constructed
            raised == TryBlock(adapters.claim_evaluator,
                               IF call[1].status = "returned" THEN "none" ELSE call[1].status)
        IN  /\ image_hashes' = IF ran THEN call[2] ELSE image_hashes
            /\ hashes_before' = image_hashes
            /\ evaluation' = IF ran THEN call[1] ELSE evaluation
            /\ response' = Served("evaluate_claim", adapters.claim_evaluator, request.land_size, StatusWithNotFound(raised))
            /\ UNCHANGED api_frame

InitApi ==
    /\ InitVerifier
    /\ args = Idle
    /\ phase = "off"
    /\ decision = NoDecision
    /\ recommendations = <<>>
    /\ threads = Idle
    /\ evaluation = NoEvaluation
    /\ adapters = NoAdapters
    /\ response = NoResponse
    /\ inputs \in {i \in Installations : \E f \in {"missing", "valid"} : \A k \in DOMAIN i : i[k] = f}
    /\ features = Idle

NextApi == initialize_models \/ verify_image \/ predict_yield \/ detect_fraud \/ evaluate_claim

SpecApi == InitApi /\ [][NextApi]_vars

\* Startup alone, over every installation.
InitStartup ==
    /\ InitVerifier
    /\ args = Idle
    /\ phase = "off"
    /\ decision = NoDecision
    /\ recommendations = <<>>
    /\ threads = Idle
    /\ evaluation = NoEvaluation
    /\ adapters = NoAdapters
    /\ response = NoResponse
    /\ inputs \in Installations
    /\ features = Idle

NextStartup == initialize_models

SpecStartup == InitStartup /\ [][NextStartup]_vars

----------------------------------------------------------------------------
(* The feature builders applied to sampled arguments *)

\* Weather dictionaries: None, dictionaries lacking keys, and every mix of
\* values a quarter outside and exactly at the bounds of the normal ranges.
EitherSide(key) ==
    {normal_ranges[key][1] - 25, normal_ranges[key][1], normal_ranges[key][2], normal_ranges[key][2] + 25}

WeatherSamples ==
    {NoWeather, [temperature |-> Units(36)], [rainfall |-> Units(100), humidity |-> Units(85)]}
        \cup [temperature : EitherSide("temperature"), rainfall : EitherSide("rainfall"),
              humidity : EitherSide("humidity")]

\* Land sizes: areas above, at and below zero, an unknown unit, strings that
\* do not parse.
FeatureLandSizes ==
    {<<"5", "acre">>, <<"2.5", "Acre">>, <<"0", "bigha">>, <<"-3", "hectare">>,
     <<"5", "plot">>, <<"five", "acre">>, <<"5">>}
        \cup {<<"5", unit>> : unit \in (DOMAIN conversion_factors) \cup {"HECTARE"}}

FeatureInputs ==
    {i \in [crop_type : {"wheat"}, land_size : FeatureLandSizes,
            expected_yield : {-Units(5), 0, Units(20)}, claim_amount : {0, Units(25000)},
            weather_features : WeatherSamples, historical_claims : {0},
            sowing_date : SowingDates] :
        i.sowing_date = "2024-07-15" \/ i.weather_features = NoWeather}

NoFeatures ==
    [built |-> FALSE, vector |-> _prepare_features("rice", <<"1", "hectare">>, 0, 0, NoWeather, 0),
     season_built |-> FALSE, season |-> <<0, 0>>,
     created |-> FALSE, training |-> <<>>]

InitFeatures ==
    /\ InitVerifier
    /\ args = Idle
    /\ phase = "off"
    /\ decision = NoDecision
    /\ recommendations = <<>>
    /\ threads = Idle
    /\ evaluation = Idle
    /\ adapters = Idle
    /\ response = Idle
    /\ inputs \in FeatureInputs
    /\ features = NoFeatures

\* FraudDetector._prepare_features on the arguments
PrepareFeatures ==
    /\ ~features.built
    /\ features' = [features EXCEPT !.built = TRUE,
                       !.vector = _prepare_features(inputs.crop_type, inputs.land_size,
                                                    inputs.expected_yield, inputs.claim_amount,
                                                    inputs.weather_features, inputs.historical_claims)]
    /\ UNCHANGED <<verifier_vars, decision_vars, threads, evaluation, api_vars, inputs>>

\* YieldPredictor._determine_season on the sowing date
DetermineSeason ==
    /\ ~features.season_built
    /\ features' = [features EXCEPT !.season_built = TRUE,
                       !.season = _determine_season(inputs.sowing_date)]
    /\ UNCHANGED <<verifier_vars, decision_vars, threads, evaluation, api_vars, inputs>>

\* AnomalyFeatureEngineer.create_features on the same claim
CreateFeatures ==
    /\ ~features.created
    /\ features' = [features EXCEPT !.created = TRUE,
                       !.training = create_features(inputs.crop_type, inputs.land_size,
                                                    inputs.expected_yield, inputs.claim_amount,
                                                    inputs.weather_features, inputs.historical_claims)]
    /\ UNCHANGED <<verifier_vars, decision_vars, threads, evaluation, api_vars, inputs>>

NextFeatures == PrepareFeatures \/ DetermineSeason \/ CreateFeatures

SpecFeatures == InitFeatures /\ [][NextFeatures]_vars

----------------------------------------------------------------------------
(* FraudDetector.detect applied to sampled claims and model outputs *)

\* Raw scores sampled, in 1/10000: beyond, at and around -1, 0 and 1.
RawScores == {-25000, -10001, -10000, -9999, -5000, -3, -1, 0, 1, 5000, 9999, 10000, 10001, 25000}

\* The anomaly model on a call: an exception, or a label and a raw score.
DetectModelOutcomes ==
    {Threw(Failure, ModelOutput(1, 0))}
        \cup {Returned(ModelOutput(prediction, anomaly_score)) :
                 prediction \in {-1, 1}, anomaly_score \in RawScores}

\* The claims: areas of 2.02, 0.02 and 0 hectares, yields and amounts that
\* put each ratio below, at and above its limit, five and six earlier
\* claims, weathers scoring 0, 40 and 70.
DetectInputs ==
    [crop_type : {"wheat"},
     land_size : {<<"5", "acre">>, <<"5", "cents">>, <<"0", "bigha">>},
     expected_yield : {0, Units(20), Units(40)},
     claim_amount : {Units(25000), Units(40000)},
     weather_features : {NoWeather, [temperature |-> Units(36)],
                         [temperature |-> Units(25), rainfall |-> Units(100), humidity |-> Units(60)]},
     historical_claims : {5, 6},
     model_outcome : DetectModelOutcomes]

NoDetection == [called |-> FALSE, outcome |-> Threw("none", NoFraudResult)]

InitDetect ==
    /\ InitVerifier
    /\ args = Idle
    /\ phase = "off"
    /\ decision = NoDecision
    /\ recommendations = <<>>
    /\ threads = Idle
    /\ evaluation = Idle
    /\ adapters = Idle
    /\ response = Idle
    /\ inputs \in DetectInputs
    /\ features = NoDetection

\* One call of detect on the claim.
Detect ==
    /\ ~features.called
    /\ features' = [called |-> TRUE,
                    outcome |-> detect(inputs.crop_type, inputs.land_size, inputs.expected_yield,
                                       inputs.claim_amount, inputs.weather_features,
                                       inputs.historical_claims, inputs.model_outcome)]
    /\ UNCHANGED <<verifier_vars, decision_vars, threads, evaluation, api_vars, inputs>>

NextDetect == Detect

SpecDetect == InitDetect /\ [][NextDetect]_vars

----------------------------------------------------------------------------
(* Claims about the decision cascade, checked under SpecDecision *)

Decided == phase \in {"decided", "recommended"}

\* The terminal rules and the soft findings as the claims word them.
HighFraudHolds == args.fraud_detected /\ args.fraud_score > Units(70)
YieldHolds ==
    /\ args.expected_yield > 0
    /\ 2 * Abs(args.predicted_yield - args.expected_yield) > args.expected_yield
FraudHolds == args.fraud_detected /\ args.fraud_score > Units(50)
DamageHolds == args.damage_confidence < Units(50)
NoTerminalRule ==
    ~args.is_duplicate /\ ~HighFraudHolds /\ args.damage_confidence >= Units(30)
HoldingKinds ==
    (IF YieldHolds THEN <<"yield_discrepancy">> ELSE <<>>)
    \o (IF FraudHolds THEN <<"moderate_fraud">> ELSE <<>>)
    \o (IF DamageHolds THEN <<"low_damage">> ELSE <<>>)
ListedKinds ==
    [i \in 1..Len(decision.reason.findings) |-> decision.reason.findings[i].kind]

\* C1: whenever is_duplicate is true, _make_decision returns approved = false
\* with the duplicate-image reason, whatever the other arguments are.
C1_DuplicateAlwaysRejected ==
    (Decided /\ args.is_duplicate)
        => /\ decision.approved = FALSE
           /\ decision.reason = Reason("duplicate", <<>>, <<>>)

\* A duplicate that also has high fraud and too little damage was decided.
C1_Witness ==
    /\ phase = "decided"
    /\ args.is_duplicate
    /\ HighFraudHolds
    /\ args.damage_confidence < Units(30)
    /\ decision.reason.kind = "duplicate"

\* C2: with is_duplicate false and fraud detected with a score above 70, the
\* verdict is the high-fraud rejection carrying the score, also when the
\* damage confidence is below 30.
C2_HighFraudBeforeLowDamage ==
    (Decided /\ ~args.is_duplicate /\ HighFraudHolds)
        => /\ decision.approved = FALSE
           /\ decision.reason.kind = "high_fraud"
           /\ decision.reason.nums = <<Fmt1(args.fraud_score)>>

\* High fraud together with damage confidence below 30 was decided.
C2_Witness ==
    /\ phase = "decided"
    /\ ~args.is_duplicate
    /\ HighFraudHolds
    /\ args.damage_confidence < Units(30)
    /\ decision.reason.kind = "high_fraud"

\* C3: with is_duplicate false, the high-fraud rule not firing and damage
\* confidence below 30, the verdict is the insufficient-evidence rejection,
\* whatever the yields are, and it reports no soft finding.
C3_LowDamageRejectedWithoutFindings ==
    (Decided /\ ~args.is_duplicate /\ ~HighFraudHolds
             /\ args.damage_confidence < Units(30))
        => /\ decision.approved = FALSE
           /\ decision.reason.kind = "insufficient_damage"
           /\ decision.reason.nums = <<Fmt1(args.damage_confidence)>>
           /\ decision.reason.findings = <<>>

\* Damage below 30 was decided while the yield and the fraud findings hold.
C3_Witness ==
    /\ phase = "decided"
    /\ ~args.is_duplicate /\ ~HighFraudHolds
    /\ args.damage_confidence < Units(30)
    /\ YieldHolds /\ FraudHolds
    /\ decision.reason.kind = "insufficient_damage"

\* C4: when no terminal rule fires and at least two soft findings hold, the
\* verdict is rejected and its reason lists every finding that holds, in the
\* order yield, fraud, damage.
C4_TwoFindingsRejectListingAll ==
    (Decided /\ NoTerminalRule /\ Len(HoldingKinds) >= 2)
        => /\ decision.approved = FALSE
           /\ decision.reason.kind = "findings"
           /\ ListedKinds = HoldingKinds

\* All three findings held and were listed.
C4_Witness ==
    /\ phase = "decided"
    /\ NoTerminalRule
    /\ YieldHolds /\ FraudHolds /\ DamageHolds
    /\ Len(decision.reason.findings) = 3

\* C5: every approved verdict has is_duplicate false, damage confidence at
\* least 40, and a fraud score of at most 60 if fraud was detected.
C5_ApprovedOnlyWhenSafe ==
    (Decided /\ decision.approved)
        => /\ ~args.is_duplicate
           /\ args.damage_confidence >= Units(40)
           /\ (args.fraud_detected => args.fraud_score <= Units(60))

\* An approval with fraud detected at a score of exactly 60.
C5_Witness ==
    /\ phase = "decided"
    /\ decision.approved
    /\ args.fraud_detected
    /\ args.fraud_score = Units(60)

\* C6: whenever the reason is 'approved with conditions', exactly one soft
\* finding holds for the arguments and it is the one the reason lists.
C6_ConditionsMeansExactlyOneFinding ==
    (Decided /\ decision.reason.kind = "conditions")
        => /\ decision.approved
           /\ Len(HoldingKinds) = 1
           /\ ListedKinds = HoldingKinds

\* An approval with conditions for the low-damage finding alone.
C6_Witness ==
    /\ phase = "decided"
    /\ decision.reason.kind = "conditions"
    /\ DamageHolds /\ ~YieldHolds /\ ~FraudHolds

\* C7: with is_duplicate false, no fraud detected, damage confidence at least
\* 70 and predicted yield equal to expected yield, the verdict is the full
\* approval and the recommendations are the single generic success message.
C7_CleanClaimFullyApproved ==
    (phase = "recommended" /\ ~args.is_duplicate /\ ~args.fraud_detected
        /\ args.damage_confidence >= Units(70)
        /\ args.predicted_yield = args.expected_yield)
        => /\ decision = Verdict(TRUE, Reason("all_passed", <<>>, <<>>))
           /\ recommendations = <<"Claim processed successfully">>

\* The spec's example: damage 80, yields 20/20, no duplicate, no fraud.
C7_Witness ==
    /\ phase = "recommended"
    /\ ~args.is_duplicate /\ ~args.fraud_detected
    /\ args.damage_confidence = Units(80)
    /\ args.predicted_yield = Units(20) /\ args.expected_yield = Units(20)
    /\ decision.approved

----------------------------------------------------------------------------
(* Claims about the duplicate engine, checked under Spec *)

\* The number of bits in which the 64-bit hashes of two sampled images
\* differ: bit i of a hash is set exactly for a bright pixel i.
ImageOf(h) == CHOOSE img \in Images : HashOf[img] = h
BitsApart(h1, h2) ==
    Cardinality((ImageOf(h1) \ ImageOf(h2)) \cup (ImageOf(h2) \ ImageOf(h1)))

SameImageTwice ==
    /\ prev.status = "ok"
    /\ last.status = "ok"
    /\ prev.image_hash = last.image_hash

\* C8 as stated: whatever the set held, verifying an image and then the same
\* image again gives is_duplicate = true with confidence 100.0 the second time.
C8_SecondCheckAlwaysExact ==
    SameImageTwice => (last.is_duplicate /\ last.duplicate_confidence = 10000)

\* C8 as amended: the second check always gives is_duplicate = true; its
\* confidence is 100.0 when the first check reported no duplicate (the hash
\* was stored) or an exact match, and when the first check was a near match
\* (hash not stored) it repeats the first check's similarity, 95 <= c < 100.
C8_SecondCheckDuplicate ==
    SameImageTwice =>
        /\ last.is_duplicate
        /\ IF ~prev.is_duplicate \/ prev.duplicate_confidence = 10000
           THEN last.duplicate_confidence = 10000
           ELSE /\ last.duplicate_confidence = prev.duplicate_confidence
                /\ last.duplicate_confidence >= 9500
                /\ last.duplicate_confidence < 10000

\* A new image verified into a set that held another hash, then verified again.
C8_Witness ==
    /\ SameImageTwice
    /\ ~prev.is_duplicate
    /\ Cardinality(image_hashes) >= 2
    /\ last.is_duplicate
    /\ last.duplicate_confidence = 10000

\* C9 as stated: an image whose hash is within 3 bits of the hash of an image
\* verified earlier is flagged as a duplicate.
C9_NearEarlierImageFlagged ==
    (prev.status = "ok" /\ last.status = "ok"
        /\ BitsApart(prev.image_hash, last.image_hash) <= 3)
        => last.is_duplicate

\* C9 as amended: an image whose hash is within 3 bits of a hash stored in the
\* set (an earlier image that was verified as not a duplicate) is flagged as
\* a duplicate.
C9_NearStoredHashFlagged ==
    (last.status = "ok"
        /\ \E stored_hash \in hashes_before : BitsApart(stored_hash, last.image_hash) <= 3)
        => last.is_duplicate

\* An image exactly 3 bits from the only stored hash was flagged, at 95.31%.
C9_Witness ==
    /\ last.status = "ok"
    /\ hashes_before # {}
    /\ \A stored_hash \in hashes_before : BitsApart(stored_hash, last.image_hash) = 3
    /\ last.is_duplicate
    /\ last.duplicate_confidence = 9531

\* C10: whenever verify returns is_duplicate = false, the image's hash is in
\* the hash set when verify returns, the first call on an empty set included.
C10_NonDuplicateIsStored ==
    (last.status = "ok" /\ ~last.is_duplicate) => last.image_hash \in image_hashes

\* The first call, on the empty set, returned is_duplicate = false.
C10_Witness ==
    /\ last.status = "ok"
    /\ ~last.is_duplicate
    /\ hashes_before = {}
    /\ image_hashes = {last.image_hash}

----------------------------------------------------------------------------
(* Claims about concurrent callers of verify, checked under SpecConcurrent *)

BothReturned(a, b) ==
    /\ a # b
    /\ threads[a].pc = "returned"
    /\ threads[b].pc = "returned"
    /\ threads[a].image_hash = threads[b].image_hash

\* C11: when two concurrent verify calls on the same image hash, started
\* against a set that does not hold it, have both returned, at most one of
\* them returned is_duplicate = false.
C11_AtMostOneMiss ==
    \A a, b \in Callers :
        BothReturned(a, b) /\ threads[a].image_hash \notin hashes_before
            => threads[a].is_duplicate \/ threads[b].is_duplicate

----------------------------------------------------------------------------
(* Claims about evaluate, checked under SpecEvaluate *)

\* C12: an evaluate call that raised has left the perceptual-hash set as it
\* found it.
C12_FailedCallLeavesNoTrace ==
    evaluation.status \notin {"none", "returned"} => image_hashes = hashes_before

ReachedYieldStep == evaluation.status # "none" /\ "image" \notin evaluation.failed

FindingKinds == {evaluation.verdict.reason.findings[i].kind : i \in DOMAIN evaluation.verdict.reason.findings}

\* C13 as stated: whenever an adapter raised during an evaluate call, the
\* call raised and returned no verdict.
C13_AnyAdapterFailureRaises ==
    evaluation.failed # {} => evaluation.status # "returned" /\ evaluation.verdict = NoVerdict

\* C13, amended: a failure of the image verifier or of the fraud detector
\* makes evaluate raise without a verdict; a failure of the yield predictor
\* alone does not: the call returns a verdict computed with the expected
\* yield as the predicted yield.
C13_OnlyYieldFailureIsAbsorbed ==
    /\ evaluation.failed \cap {"image", "fraud"} # {}
           => evaluation.status # "returned" /\ evaluation.verdict = NoVerdict
    /\ evaluation.failed = {"yield"}
           => /\ evaluation.status = "returned"
              /\ evaluation.predicted_yield = inputs.expected_yield
              /\ evaluation.verdict.predicted_yield = inputs.expected_yield

C13_Witness ==
    /\ evaluation.failed = {"yield"}
    /\ evaluation.status = "returned"
    /\ evaluation.verdict.approved

\* The optional fields of the claim are all given: the three strings are
\* non-empty texts and the fertilizer usage is a number, 0 included.
AllPresent ==
    /\ inputs.sowing_date \notin {None, ""}
    /\ inputs.soil_type \notin {None, ""}
    /\ inputs.irrigation_type \notin {None, ""}
    /\ inputs.fertilizer_usage # NoNumber

----------------------------------------------------------------------------
(* Claims about the API entry points, checked under SpecApi *)

\* The land size sent has fewer than two tokens, or a first token float()
\* rejects.
Malformed(land_size) == Len(land_size) < 2 \/ land_size[1] \notin DOMAIN FloatOf

TakesLandSize == response.endpoint \in {"detect_fraud", "predict_yield", "evaluate_claim"}

\* C15: a request to detect_fraud, predict_yield or evaluate_claim whose land
\* size is malformed, served by an initialized adapter, is answered with the
\* input-format error (HTTP 400) and not with a result.
C15_MalformedLandSizeRejected ==
    TakesLandSize /\ ~response.uninitialized /\ Malformed(response.land_size)
        => response.status = 400

\* C16: a request served while its adapter is None is answered with HTTP 503.
C16_UninitializedAnswers503 ==
    response.endpoint # "none" /\ response.uninitialized => response.status = 503

----------------------------------------------------------------------------
(* Claims about the feature builders, checked under SpecFeatures *)

\* The weather the score is computed from, and the dimensions of it outside
\* their ranges, the bounds themselves being inside.
WeatherUsed == extract_weather_features(inputs.weather_features)

OutOfRange(weather) ==
    (IF weather.temperature >= Units(20) /\ weather.temperature <= Units(35) THEN {} ELSE {"temperature"})
        \cup (IF weather.rainfall >= Units(50) /\ weather.rainfall <= Units(150) THEN {} ELSE {"rainfall"})
        \cup (IF weather.humidity >= Units(40) /\ weather.humidity <= Units(80) THEN {} ELSE {"humidity"})

PenaltySum(dimensions) ==
    (IF "temperature" \in dimensions THEN Units(30) ELSE 0)
        + (IF "rainfall" \in dimensions THEN Units(40) ELSE 0)
        + (IF "humidity" \in dimensions THEN Units(30) ELSE 0)

\* C17: the weather-anomaly score of the vector is 30 for temperature outside
\* [20,35] plus 40 for rainfall outside [50,150] plus 30 for humidity outside
\* [40,80], bounds inclusive; it is one of 0, 30, 40, 60, 70, 100, at most
\* 100, and no weather with more dimensions out of range scores less.
C17_WeatherScoreIsPenaltySum ==
    features.built =>
        /\ features.vector.weather_anomaly_score = PenaltySum(OutOfRange(WeatherUsed))
        /\ features.vector.weather_anomaly_score \in {Units(x) : x \in {0, 30, 40, 60, 70, 100}}
        /\ features.vector.weather_anomaly_score <= Units(100)
        /\ \A other \in WeatherSamples :
               OutOfRange(WeatherUsed) \subseteq OutOfRange(extract_weather_features(other))
                   => features.vector.weather_anomaly_score
                          <= _calculate_weather_anomaly_score(extract_weather_features(other))

C17_Witness ==
    /\ features.built
    /\ WeatherUsed.temperature = Units(35)
    /\ WeatherUsed.humidity = Units(40)
    /\ WeatherUsed.rainfall > Units(150)
    /\ features.vector.weather_anomaly_score = Units(40)

\* C18: the vector is always produced, without a division error; its
\* claim-to-yield ratio is 0 when the expected yield is not positive, and its
\* yield and claim per hectare are 0 when the area is not positive.
C18_RatiosZeroWithoutDivision ==
    features.built =>
        /\ features.vector.raised = "none"
        /\ inputs.expected_yield <= 0 => features.vector.claim_to_yield_ratio = 0
        /\ features.vector.land_size_hectares <= 0
               => features.vector.yield_per_hectare = 0 /\ features.vector.claim_per_hectare = 0

C18_Witness ==
    /\ features.built
    /\ features.vector.land_size_hectares = 0
    /\ inputs.expected_yield = 0
    /\ inputs.claim_amount > 0
    /\ features.vector.claim_per_hectare = 0
    /\ features.vector.claim_to_yield_ratio = 0

\* The month of the sowing date, 0 when the text is not a date.
SowingMonth == IF inputs.sowing_date \in DOMAIN DateFields THEN DateFields[inputs.sowing_date][2] ELSE 0

\* C20: the flags (is_kharif, is_rabi) are never both 1; is_kharif is 1
\* exactly for months 6..10, is_rabi exactly for months 11, 12, 1..4; month 5
\* and a text that is not a date give (0, 0).
C20_SeasonFlagsExclusive ==
    features.season_built =>
        /\ features.season # <<1, 1>>
        /\ features.season[1] = 1 <=> SowingMonth \in 6..10
        /\ features.season[2] = 1 <=> SowingMonth \in {11, 12} \cup 1..4
        /\ SowingMonth \in {0, 5} => features.season = <<0, 0>>

C20_Witness ==
    /\ features.season_built
    /\ SowingMonth = 5
    /\ features.season = <<0, 0>>

----------------------------------------------------------------------------
(* Claims about startup, checked under SpecStartup *)

Started == adapters.claim_evaluator.constructed

ModelAdapters == {"image_verifier", "yield_predictor", "fraud_detector"}

\* The file an adapter's model is loaded from.
ModelFile(adapter) ==
    CASE adapter = "image_verifier" -> inputs.classifier
      [] adapter = "yield_predictor" -> inputs.yield_model
      [] OTHER -> inputs.fraud_model

\* C19: after startup each of the three adapters is constructed and reports
\* is_loaded() true whatever the files are; an adapter whose model file is
\* missing or fails to load holds the default model; the hash set is empty
\* when the stored hashes are missing or fail to load.
C19_StartupFallsBackToDefaults ==
    Started =>
        /\ \A a \in ModelAdapters :
               /\ adapters[a].constructed
               /\ is_loaded(adapters[a])
               /\ ModelFile(a) # "valid" => adapters[a].model = "default"
        /\ inputs.duplicate # "valid" => image_hashes = {}

C19_Witness ==
    /\ Started
    /\ inputs.classifier = "missing" /\ inputs.duplicate = "corrupt"
    /\ inputs.yield_model = "corrupt" /\ inputs.yield_scaler = "missing"
    /\ inputs.fraud_model = "missing" /\ inputs.fraud_scaler = "corrupt"
    /\ \A a \in ModelAdapters : adapters[a].model = "default" /\ is_loaded(adapters[a])
    /\ image_hashes = {}

----------------------------------------------------------------------------
(* Claims about detect, checked under SpecDetect *)

DetectReturned == features.called /\ features.outcome.raised = "none"

\* The vector detect built for the claim, by field.
DetectVector ==
    _prepare_features(inputs.crop_type, inputs.land_size, inputs.expected_yield,
                      inputs.claim_amount, inputs.weather_features, inputs.historical_claims)

\* The fixed order of the rules, and the rules the claim's vector triggers.
RuleOrder ==
    <<"Unusually high claim amount relative to expected yield",
      "Suspiciously low yield per hectare",
      "Unusually high yield per hectare",
      "Extremely high claim amount per hectare",
      "High number of historical claims",
      "Unusual weather conditions reported">>

Triggers(description) ==
    CASE description = RuleOrder[1] -> DetectVector.claim_to_yield_ratio > Units(1000)
      [] description = RuleOrder[2] -> DetectVector.yield_per_hectare < Units(10)
      [] description = RuleOrder[3] -> DetectVector.yield_per_hectare > Units(100)
      [] description = RuleOrder[4] -> DetectVector.claim_per_hectare > Units(50000)
      [] description = RuleOrder[5] -> DetectVector.historical_claims > 5
      [] OTHER -> DetectVector.weather_anomaly_score > Units(50)

TriggeredInOrder == SelectSeq(RuleOrder, Triggers)

\* C21: anomaly_features is empty exactly when fraud_detected is false; when
\* fraud is detected it lists every triggered rule in the fixed order, and
\* is the single 'multiple factors' message exactly when no rule triggers.
C21_AttributionListsTriggeredRules ==
    DetectReturned =>
        LET result == features.outcome.value
        IN  /\ result.anomaly_features = <<>> <=> ~result.fraud_detected
            /\ result.fraud_detected /\ TriggeredInOrder # <<>>
                   => result.anomaly_features = TriggeredInOrder
            /\ result.fraud_detected
                   => (result.anomaly_features = <<"Multiple factors indicate potential fraud">>
                          <=> TriggeredInOrder = <<>>)

C21_Witness ==
    /\ DetectReturned
    /\ features.outcome.value.fraud_detected
    /\ Len(features.outcome.value.anomaly_features) >= 3
    /\ features.outcome.value.anomaly_features = TriggeredInOrder

\* C22: the fraud score is within [0, 100] for every raw score and does not
\* rise with the raw score; fraud_detected is true exactly for the label -1,
\* whatever the score.
C22_FraudScoreBoundedMonotone ==
    DetectReturned =>
        LET result == features.outcome.value
            raw == inputs.model_outcome.value
        IN  /\ 0 <= result.fraud_score /\ result.fraud_score <= Units(100)
            /\ \A other \in RawScores :
                   other <= raw.anomaly_score => fraud_score_of(other) >= result.fraud_score
            /\ result.fraud_detected <=> raw.prediction = -1

C22_Witness ==
    /\ DetectReturned
    /\ inputs.model_outcome.value.anomaly_score < -10000
    /\ inputs.model_outcome.value.prediction = 1
    /\ features.outcome.value.fraud_score = Units(100)
    /\ ~features.outcome.value.fraud_detected

\* C30: the confidence is exactly 50 for every raw score in [-1, 1], and is
\* above 50 only for a raw score of magnitude above 1.
C30_ConfidenceFlatWithinUnit ==
    DetectReturned =>
        LET confidence == features.outcome.value.confidence
            anomaly_score == inputs.model_outcome.value.anomaly_score
        IN  /\ -10000 <= anomaly_score /\ anomaly_score <= 10000 => confidence = Units(50)
            /\ confidence > Units(50) => Abs(anomaly_score) > 10000
            /\ Units(50) <= confidence /\ confidence <= Units(100)

C30_Witness ==
    /\ DetectReturned
    /\ inputs.model_outcome.value.anomaly_score = -10000
    /\ features.outcome.value.confidence = Units(50)

----------------------------------------------------------------------------
(* The two builders of the fraud vector, checked under SpecFeatures *)

\* C23: for the same claim the training-time builder (create_features) and
\* the inference-time builder (_prepare_features) give the same array of
\* twelve features in the same order, for every unit of the conversion table.
C23_BuildersAgree ==
    features.built /\ features.created => FeatureArray(features.vector) = features.training

----------------------------------------------------------------------------
(* Further claims about the decision and the recommendations, checked under *)
(* SpecDecision                                                             *)

\* C24: the recommendation list is never empty, and a rejected claim has
\* is_duplicate, fraud_detected or damage_confidence < 50 true, so that its
\* list holds an evidentiary recommendation and never the generic 'Claim
\* processed successfully'.
C24_RejectionCarriesEvidence ==
    phase = "recommended" =>
        /\ recommendations # <<>>
        /\ ~decision.approved =>
               /\ args.is_duplicate \/ args.fraud_detected \/ args.damage_confidence < Units(50)
               /\ \A i \in 1..Len(recommendations) :
                      recommendations[i] \in {RecOriginals, RecReview, RecClearer}

C24_Witness ==
    /\ phase = "recommended"
    /\ ~decision.approved
    /\ decision.reason.kind = "findings"
    /\ ~args.is_duplicate /\ ~args.fraud_detected
    /\ recommendations = <<RecClearer>>

\* C27: the decision and its reason are the same whatever the claim amount.
C27_DecisionIgnoresClaimAmount ==
    Decided =>
        \A claim_amount \in ClaimAmounts :
            _make_decision(args.damage_confidence, args.is_duplicate, args.predicted_yield,
                           args.expected_yield, args.fraud_detected, args.fraud_score,
                           claim_amount) = decision

C27_Witness ==
    /\ Decided
    /\ decision.approved
    /\ args.claim_amount = Units(25000)

\* C28: a decision whose reason is the full approval ('All checks passed.
\* Damage verified, no fraud detected, yield predictions align.') comes with
\* fraud_detected false.
C28_FullApprovalMeansNoFraud ==
    Decided /\ decision.reason.kind = "all_passed" => ~args.fraud_detected

----------------------------------------------------------------------------
(* Claims about the stored hashes *)

\* C25, checked under Spec: after any sequence of verify calls made one
\* after another from the empty set, any two distinct stored hashes differ
\* in more than 3 of their 64 bits, and their similarity is below 0.95.
C25_StoredHashesFarApart ==
    \A h1, h2 \in image_hashes :
        h1 # h2 => /\ BitsApart(h1, h2) > 3
                   /\ Similarity[<<h1, h2>>] * 100 < DefaultThreshold * 6400

\* Two hashes are stored, and the latest call, on an image near one of
\* them, was flagged and stored nothing.
C25_Witness ==
    /\ Cardinality(image_hashes) = 2
    /\ last.status = "ok"
    /\ last.is_duplicate
    /\ last.duplicate_confidence < 10000
    /\ last.image_hash \notin image_hashes

\* C26, checked under SpecConcurrent: no call removes a stored hash, a call
\* that returned is_duplicate = true added nothing and a call that returned
\* is_duplicate = false added exactly one hash, so the set has grown by as
\* many hashes as calls returned is_duplicate = false.
C26_EachMissAddsOneHash ==
    /\ hashes_before \subseteq image_hashes
    /\ Cardinality(image_hashes \ hashes_before)
           = Cardinality({t \in Callers : threads[t].pc = "returned" /\ ~threads[t].is_duplicate})

----------------------------------------------------------------------------
(* The fraud score of a verdict, checked under SpecEvaluate *)

\* The scores detect returns with fraud_detected true, over the model's
\* behaviours.
DetectedScores ==
    {fraud_score_of(o.value.anomaly_score) :
        o \in {f \in FraudOutcomes : f.raised = "none" /\ f.value.prediction = -1}}

\* C29: in a verdict returned by evaluate, fraud_score is None exactly when
\* fraud_detected is false; otherwise it is the score detect returned, and
\* lies in [0, 100].
C29_ScorePresentIffFraud ==
    evaluation.status = "returned" =>
        LET verdict == evaluation.verdict
        IN  /\ verdict.fraud_score = NoNumber <=> ~verdict.fraud_detected
            /\ verdict.fraud_detected =>
                   /\ verdict.fraud_score.given
                   /\ verdict.fraud_score.value \in DetectedScores
                   /\ 0 <= verdict.fraud_score.value
                   /\ verdict.fraud_score.value <= Units(100)

C29_Witness ==
    /\ evaluation.status = "returned"
    /\ evaluation.verdict.fraud_detected
    /\ evaluation.verdict.fraud_score = Number(Units(100))

====
